---- MODULE Spec2Model ----
(***************************************************************************)
(* Model of add_missing_cameras.py: one run of main() reads the scanner    *)
(* CSV, reads the configuration document, computes the missing cameras,    *)
(* appends one entry per missing camera with freshly stepped ports and     *)
(* writes the document back.  Text is modelled as sequences of one         *)
(* character strings so that split/rfind/strip/replace/int and the         *)
(* channel regex are computed the way the code computes them.              *)
(***************************************************************************)
EXTENDS Integers, Sequences, FiniteSets, TLC

\* ---------------------------------------------------------------- bounds
MaxRows == 2
MaxEntries == 2
MaxRuns == 2

\* ------------------------------------------------------- text primitives
Digits == {"0", "1", "2", "3", "4", "5", "6", "7", "8", "9"}

DigitVal(c) ==
  CASE c = "0" -> 0 [] c = "1" -> 1 [] c = "2" -> 2 [] c = "3" -> 3
    [] c = "4" -> 4 [] c = "5" -> 5 [] c = "6" -> 6 [] c = "7" -> 7
    [] c = "8" -> 8 [] c = "9" -> 9

SetMin(S) == CHOOSE x \in S : \A y \in S : x <= y
SetMax(S) == CHOOSE x \in S : \A y \in S : x >= y

\* sep occurs in s starting at (1-based) position i
OccursAt(s, sep, i) ==
  /\ i >= 1
  /\ i + Len(sep) - 1 <= Len(s)
  /\ SubSeq(s, i, i + Len(sep) - 1) = sep

\* str.find / str.rfind, 1-based, 0 when absent (Python: 0-based, -1)
Find(s, sep) ==
  LET I == {i \in 1..Len(s) : OccursAt(s, sep, i)}
  IN IF I = {} THEN 0 ELSE SetMin(I)

RFind(s, sep) ==
  LET I == {i \in 1..Len(s) : OccursAt(s, sep, i)}
  IN IF I = {} THEN 0 ELSE SetMax(I)

\* str.split(sep): every occurrence splits
RECURSIVE Split(_, _)
Split(s, sep) ==
  LET i == Find(s, sep)
  IN IF i = 0 THEN <<s>>
     ELSE <<SubSeq(s, 1, i - 1)>> \o Split(SubSeq(s, i + Len(sep), Len(s)), sep)

\* str.split(sep, 1): only the first occurrence splits
Split1(s, sep) ==
  LET i == Find(s, sep)
  IN IF i = 0 THEN <<s>>
     ELSE <<SubSeq(s, 1, i - 1), SubSeq(s, i + Len(sep), Len(s))>>

\* str.strip() over the blank character
RECURSIVE LStrip(_)
LStrip(s) == IF s # <<>> /\ Head(s) = " " THEN LStrip(Tail(s)) ELSE s

RECURSIVE RStrip(_)
RStrip(s) ==
  IF s # <<>> /\ s[Len(s)] = " " THEN RStrip(SubSeq(s, 1, Len(s) - 1)) ELSE s

Strip(s) == RStrip(LStrip(s))

\* str.replace(a, b) for single characters
Replace(s, a, b) == [i \in 1..Len(s) |-> IF s[i] = a THEN b ELSE s[i]]

\* int(text): blanks around, an optional sign, then at least one digit;
\* anything else raises ValueError
IntBody(s) ==
  LET t == Strip(s)
  IN IF t # <<>> /\ Head(t) \in {"+", "-"} THEN Tail(t) ELSE t

IntOk(s) ==
  LET b == IntBody(s)
  IN b # <<>> /\ \A i \in 1..Len(b) : b[i] \in Digits

RECURSIVE DecVal(_)
DecVal(b) ==
  IF b = <<>> THEN 0
  ELSE 10 * DecVal(SubSeq(b, 1, Len(b) - 1)) + DigitVal(b[Len(b)])

IntVal(s) ==
  LET t == Strip(s)
  IN IF Head(t) = "-" THEN 0 - DecVal(IntBody(s)) ELSE DecVal(IntBody(s))

\* ---------------------------------------------------------- parse_csv_file
\* the value of the Status column that marks a usable row (line 32); the
\* column is only compared for equality
StatusWorking == "Working"
NA == <<"N", "/", "A">>

\* the body of the for loop for one row: a camera, a skipped row
\* (continue), or an exception that leaves the loop.  The unpacking
\* assignments raise unless the split yields exactly two parts, [1] raises
\* when the scheme separator is absent, and int()/float() are evaluated
\* last, while the dict is built.  The FPS texts of the model are whole
\* numbers, on which float() accepts what int() accepts.
ParseRow(row) ==
  IF row.Status # StatusWorking THEN [kind |-> "skip"]
  ELSE
    LET res == Split(row.Resolution, <<"x">>)
    IN IF Len(res) # 2 THEN [kind |-> "raise"]
       ELSE
         LET camera_name == Replace(Strip(row.OverlayText), " ", "-")
             urlparts    == Split1(row.RtspUrl, <<":", "/", "/">>)
         IN IF Len(urlparts) < 2 THEN [kind |-> "raise"]
            ELSE
              LET parts == urlparts[2]
                  last_at_index == RFind(parts, <<"@">>)
                  host_port_path ==
                    IF last_at_index # 0
                    THEN SubSeq(parts, last_at_index + 1, Len(parts))
                    ELSE parts
                  hpp == Split1(host_port_path, <<"/">>)
              IN IF Len(hpp) # 2 THEN [kind |-> "raise"]
                 ELSE
                   LET hp == Split(hpp[1], <<":">>)
                   IN IF Len(hp) # 2 THEN [kind |-> "raise"]
                      ELSE
                        LET hostname  == hp[1]
                            rtsp_path == <<"/">> \o hpp[2]
                        IN IF hostname = <<>> \/ rtsp_path = <<>>
                           THEN [kind |-> "skip"]
                           ELSE IF ~IntOk(res[1]) \/ ~IntOk(res[2])
                             THEN [kind |-> "raise"]
                           ELSE IF row.FPS # NA /\ ~IntOk(row.FPS)
                             THEN [kind |-> "raise"]
                           ELSE [kind |-> "camera",
                                 camera |->
                                   [name      |-> camera_name,
                                    channel   |-> row.Channel,
                                    hostname  |-> hostname,
                                    rtsp_path |-> rtsp_path,
                                    width     |-> IntVal(res[1]),
                                    height    |-> IntVal(res[2]),
                                    framerate |-> IF row.FPS # NA
                                                  THEN IntVal(row.FPS) ELSE 30,
                                    codec     |-> IF row.Codec # "N/A"
                                                  THEN row.Codec ELSE "h264"]]

\* the whole function: the cameras of the rows in order, or sys.exit(1)
\* as soon as one row raises
RECURSIVE ParseRows(_, _)
ParseRows(rows, cameras) ==
  IF rows = <<>> THEN [exit |-> FALSE, cameras |-> cameras]
  ELSE
    LET r == ParseRow(Head(rows))
    IN CASE r.kind = "raise"  -> [exit |-> TRUE, cameras |-> <<>>]
         [] r.kind = "skip"   -> ParseRows(Tail(rows), cameras)
         [] r.kind = "camera" -> ParseRows(Tail(rows), Append(cameras, r.camera))

parse_csv_file(rows) == ParseRows(rows, <<>>)

\* ------------------------------------------------- configuration document
\* A YAML mapping is an insertion-ordered sequence of <<key, value>> pairs
\* (a Python dict); an entry of the device list is a record whose optional
\* keys may be absent from its DOMAIN.
HasKey(items, k) == \E i \in 1..Len(items) : items[i][1] = k

Get(items, k) == items[CHOOSE i \in 1..Len(items) : items[i][1] = k][2]

\* d[k] = v: replaces in place when the key exists, appends otherwise
SetKey(items, k, v) ==
  IF HasKey(items, k)
  THEN [i \in 1..Len(items) |-> IF items[i][1] = k THEN <<k, v>> ELSE items[i]]
  ELSE Append(items, <<k, v>>)

IsList(v) == v.kind = "list"

\* yaml.safe_load: None for an empty file, the mapping for a document,
\* an exception for text that is not YAML
LoadOk(file) == file.kind \in {"yaml", "empty"}

safe_load(file) ==
  IF file.kind = "empty" THEN [kind |-> "none"]
  ELSE [kind |-> "map", items |-> file.items]

\* yaml.dump(default_flow_style=False) writes mapping keys sorted
KeyRank(k) == CASE k = "mqtt" -> 1 [] k = "onvif" -> 2 [] k = "zones" -> 3

RECURSIVE InsertSorted(_, _)
InsertSorted(sorted, kv) ==
  IF sorted = <<>> THEN <<kv>>
  ELSE IF KeyRank(kv[1]) < KeyRank(Head(sorted)[1]) THEN <<kv>> \o sorted
  ELSE <<Head(sorted)>> \o InsertSorted(Tail(sorted), kv)

RECURSIVE SortKeys(_)
SortKeys(items) ==
  IF items = <<>> THEN <<>>
  ELSE InsertSorted(SortKeys(SubSeq(items, 1, Len(items) - 1)), items[Len(items)])

yaml_dump(config) == [kind |-> "yaml", items |-> SortKeys(config.items)]

\* ---------------------------------------------------- find_missing_cameras
ChannelMarker == <<"c", "h", "a", "n", "n", "e", "l", "=">>

\* the longest run of digits of s that starts at position i
RECURSIVE DigitRun(_, _)
DigitRun(s, i) ==
  IF i <= Len(s) /\ s[i] \in Digits THEN <<s[i]>> \o DigitRun(s, i + 1) ELSE <<>>

\* re.search(r'channel=(\d+)', s): scan the start positions left to right,
\* the first one where the marker is followed by a digit matches and the
\* group is the greedy digit run; <<>> stands for no match
RECURSIVE ReSearchFrom(_, _)
ReSearchFrom(s, i) ==
  IF i > Len(s) THEN <<>>
  ELSE IF OccursAt(s, ChannelMarker, i)
          /\ DigitRun(s, i + Len(ChannelMarker)) # <<>>
       THEN DigitRun(s, i + Len(ChannelMarker))
       ELSE ReSearchFrom(s, i + 1)

channel_search(rtsp_path) == ReSearchFrom(rtsp_path, 1)

RECURSIVE ExistingNames(_)
ExistingNames(onvif) ==
  IF onvif = <<>> THEN <<>>
  ELSE (IF "name" \in DOMAIN Head(onvif) THEN <<Head(onvif).name>> ELSE <<>>)
       \o ExistingNames(Tail(onvif))

RECURSIVE ExistingChannels(_)
ExistingChannels(onvif) ==
  IF onvif = <<>> THEN <<>>
  ELSE LET camera == Head(onvif)
       IN (IF /\ "highQuality" \in DOMAIN camera
              /\ "rtsp" \in DOMAIN camera.highQuality
              /\ channel_search(camera.highQuality.rtsp) # <<>>
           THEN <<channel_search(camera.highQuality.rtsp)>> ELSE <<>>)
          \o ExistingChannels(Tail(onvif))

InList(x, list) == \E i \in 1..Len(list) : list[i] = x

\* the device list the loops of the function walk over
OnvifList(config) ==
  IF HasKey(config.items, "onvif") /\ IsList(Get(config.items, "onvif"))
  THEN Get(config.items, "onvif").items ELSE <<>>

\* variant: a record counts as missing when either key is absent
RECURSIVE FilterMissingEitherAbsent(_, _, _)
FilterMissingEitherAbsent(cams, names, channels) ==
  IF cams = <<>> THEN <<>>
  ELSE (IF ~InList(Head(cams).name, names) \/ ~InList(Head(cams).channel, channels)
        THEN <<Head(cams)>> ELSE <<>>)
       \o FilterMissingEitherAbsent(Tail(cams), names, channels)

RECURSIVE FilterMissing(_, _, _)
FilterMissing(cams, names, channels) ==
  IF cams = <<>> THEN <<>>
  ELSE (IF ~InList(Head(cams).name, names) /\ ~InList(Head(cams).channel, channels)
        THEN <<Head(cams)>> ELSE <<>>)
       \o FilterMissing(Tail(cams), names, channels)

find_missing_cameras(csv_cameras, config) ==
  FilterMissing(csv_cameras,
                ExistingNames(OnvifList(config)),
                ExistingChannels(OnvifList(config)))

\* --------------------------------------------------- add_cameras_to_config
DefaultServerPort == 8081
DefaultRtspPort == 8554
DefaultSnapshotPort == 8080
PortStep == 1000
DefaultInterface == "enp6s0"

\* the scan over config['onvif'] for one role, starting from the default
RECURSIVE HighestPort(_, _, _)
HighestPort(onvif, role, highest) ==
  IF onvif = <<>> THEN highest
  ELSE LET camera == Head(onvif)
       IN HighestPort(Tail(onvif), role,
            IF /\ "ports" \in DOMAIN camera
               /\ role \in DOMAIN camera.ports
               /\ camera.ports[role] > highest
            THEN camera.ports[role] ELSE highest)

\* variant: the entry is named after the channel instead of the name
camera_config_named_by_channel(camera, network_interface, server, rtsp, snapshot) ==
  [name |-> camera.channel,
   dev |-> network_interface,
   target |-> [hostname |-> camera.hostname,
               ports |-> [rtsp |-> 554, snapshot |-> 80]],
   highQuality |-> [rtsp |-> camera.rtsp_path,
                    snapshot |-> "/onvif-http/snapshot",
                    width |-> camera.width,
                    height |-> camera.height,
                    framerate |-> camera.framerate,
                    bitrate |-> 2048,
                    quality |-> 4],
   ports |-> [server |-> server, rtsp |-> rtsp, snapshot |-> snapshot]]

camera_config(camera, network_interface, server, rtsp, snapshot) ==
  [name |-> camera.name,
   dev |-> network_interface,
   target |-> [hostname |-> camera.hostname,
               ports |-> [rtsp |-> 554, snapshot |-> 80]],
   highQuality |-> [rtsp |-> camera.rtsp_path,
                    snapshot |-> "/onvif-http/snapshot",
                    width |-> camera.width,
                    height |-> camera.height,
                    framerate |-> camera.framerate,
                    bitrate |-> 2048,
                    quality |-> 4],
   ports |-> [server |-> server, rtsp |-> rtsp, snapshot |-> snapshot]]

\* variant: the counters are stepped after the entry is built
RECURSIVE AppendCamerasStepAfter(_, _, _, _, _, _)
AppendCamerasStepAfter(onvif, cams, network_interface, server, rtsp, snapshot) ==
  IF cams = <<>> THEN onvif
  ELSE AppendCamerasStepAfter(
         Append(onvif, [name |-> Head(cams).name,
                        dev |-> network_interface,
                        target |-> [hostname |-> Head(cams).hostname,
                                    ports |-> [rtsp |-> 554, snapshot |-> 80]],
                        highQuality |-> [rtsp |-> Head(cams).rtsp_path,
                                         snapshot |-> "/onvif-http/snapshot",
                                         width |-> Head(cams).width,
                                         height |-> Head(cams).height,
                                         framerate |-> Head(cams).framerate,
                                         bitrate |-> 2048,
                                         quality |-> 4],
                        ports |-> [server |-> server, rtsp |-> rtsp,
                                   snapshot |-> snapshot]]),
         Tail(cams), network_interface,
         server + PortStep, rtsp + PortStep, snapshot + PortStep)

\* the append loop: the counters are stepped before each entry is built
RECURSIVE AppendCameras(_, _, _, _, _, _)
AppendCameras(onvif, cams, network_interface, server, rtsp, snapshot) ==
  IF cams = <<>> THEN onvif
  ELSE AppendCameras(
         Append(onvif, camera_config(Head(cams), network_interface,
                                     server + PortStep, rtsp + PortStep,
                                     snapshot + PortStep)),
         Tail(cams), network_interface,
         server + PortStep, rtsp + PortStep, snapshot + PortStep)

\* iterating a value that is not a list raises TypeError
AddRaises(config) ==
  HasKey(config.items, "onvif") /\ ~IsList(Get(config.items, "onvif"))

\* variant: the result is rebuilt around the device list alone
add_cameras_to_config_rebuilt(missing_cameras, config, network_interface) ==
  LET onvif == IF HasKey(config.items, "onvif")
               THEN Get(config.items, "onvif").items ELSE <<>>
      updated == AppendCameras(onvif, missing_cameras, network_interface,
                   HighestPort(onvif, "server", DefaultServerPort),
                   HighestPort(onvif, "rtsp", DefaultRtspPort),
                   HighestPort(onvif, "snapshot", DefaultSnapshotPort))
  IN [kind |-> "map",
      items |-> << <<"onvif", [kind |-> "list", items |-> updated]>> >>]

add_cameras_to_config(missing_cameras, config, network_interface) ==
  LET items == IF ~HasKey(config.items, "onvif")
               THEN SetKey(config.items, "onvif", [kind |-> "list", items |-> <<>>])
               ELSE config.items
      onvif == Get(items, "onvif").items
      updated == AppendCameras(onvif, missing_cameras, network_interface,
                   HighestPort(onvif, "server", DefaultServerPort),
                   HighestPort(onvif, "rtsp", DefaultRtspPort),
                   HighestPort(onvif, "snapshot", DefaultSnapshotPort))
  IN [kind |-> "map",
      items |-> SetKey(items, "onvif", [kind |-> "list", items |-> updated])]

\* ------------------------------------------------------------------ inputs
\* scanner rows; every text field is a sequence of characters
Row(status, channel, url, overlay, resolution, codec, fps) ==
  [Status |-> status, Channel |-> channel, RtspUrl |-> url,
   OverlayText |-> overlay, Resolution |-> resolution, Codec |-> codec,
   FPS |-> fps]

UrlGood ==
  <<"r", "t", "s", "p", ":", "/", "/", "h", ":", "5", "5", "4", "/",
    "c", "h", "a", "n", "n", "e", "l", "=", "1">>
UrlChannel2 == <<"r", "t", "s", "p", ":", "/", "/", "h", ":", "5", "5", "4", "/", "c", "h", "a", "n", "n", "e", "l", "=",
    "2">>
UrlNoMarker == <<"r", "t", "s", "p", ":", "/", "/", "h", ":", "5", "5", "4", "/", "c", "h", "2">>
UrlChannel12 == <<"r", "t", "s", "p", ":", "/", "/", "u", ":", "p", "@", "h", ":", "5", "5", "4", "/", "c", "h", "a", "n", "n", "e", "l", "=",
    "1", "2">>
UrlNoSlash == <<"r", "t", "s", "p", ":", "/", "/", "h", ":", "5", "5", "4">>
PathChannel1 == <<"/", "c", "h", "a", "n", "n", "e", "l", "=", "1">>
PathNoMarker == <<"/", "c", "h", "2">>
PathSecondMarker == <<"/", "c", "h", "a", "n", "n", "e", "l", "=",
    "x", "/", "c", "h", "a", "n", "n", "e", "l", "=",
    "1", "2", "a">>
ResGood == <<"6", "4", "x", "4", "8">>
LabelGood == <<"C", "a", "m", " ", "1">>
FpsGood == <<"2", "5">>

BaseRow == Row(StatusWorking, <<"1">>, UrlGood, LabelGood, ResGood, "h265", FpsGood)

UrlChoices ==
  { UrlGood,
    <<"r", "t", "s", "p", ":", "/", "/", "u", ":", "p", "@", "s", "@", "h", ":", "5", "5", "4", "/", "c", "h", "a", "n", "n", "e", "l", "=", "3">>,
    UrlNoSlash,
    <<"r", "t", "s", "p", ":", "/", "/", ":", "5", "5", "4", "/", "c">>,
    <<"h", ":", "5", "5", "4", "/", "c">>,
    <<"r", "t", "s", "p", ":", "/", "/", "h", "/", "c">>,
    <<"r", "t", "s", "p", ":", "/", "/", "h", ":", "5", "5", "4", "/">> }

ResolutionChoices ==
  { ResGood,
    <<"0", "x", "4", "8">>,
    <<"-", "6", "4", "x", "4", "8">>,
    <<"N", "/", "A">>,
    <<"6", "4", "x", "4", "8", "x", "3">>,
    <<"6", "4", "x", "a", "b">>,
    <<" ", "6", "4", "x", "4", "8">> }

LabelChoices == { LabelGood, <<>>, <<" ", " ">>, <<" ", "C", "a", "m", " ", "1", " ">> }

FpsChoices == { FpsGood, NA, <<"a", "b", "c">> }

\* rows that exercise the parser: the base row with one field varied, and
\* a row that is not working whose other fields are malformed
ParseRowChoices ==
  {[BaseRow EXCEPT !.RtspUrl = u] : u \in UrlChoices}
  \cup {[BaseRow EXCEPT !.Resolution = r] : r \in ResolutionChoices}
  \cup {[BaseRow EXCEPT !.OverlayText = l] : l \in LabelChoices}
  \cup {[BaseRow EXCEPT !.FPS = f] : f \in FpsChoices}
  \cup {[BaseRow EXCEPT !.Codec = "N/A"],
        [BaseRow EXCEPT !.Status = "Offline"],
        Row("Offline", <<"1">>, UrlNoSlash, <<>>, NA, "N/A", NA)}

\* rows that exercise the comparison with the document: well formed, with
\* names and channels that do or do not collide, and one malformed row
DiffRowChoices ==
  { Row(StatusWorking, <<"1">>, UrlGood, <<"A">>, ResGood, "h265", FpsGood),
    Row(StatusWorking, <<"2">>, UrlChannel2, <<"A">>, ResGood, "N/A", NA),
    Row(StatusWorking, <<"2">>, UrlNoMarker, <<"B", " ", "C">>, ResGood, "h265", FpsGood),
    Row(StatusWorking, <<"1", "2">>, UrlChannel12, <<"D">>, ResGood, "h265", FpsGood),
    Row(StatusWorking, <<"4">>, UrlGood, <<"F">>, NA, "h265", FpsGood) }

\* all sequences over S of length at most n
SeqsUpTo(S, n) == UNION {[1..k -> S] : k \in 0..n}

CsvFiles(rowChoices) ==
  {[kind |-> "absent"]}
  \cup {[kind |-> "csv", rows |-> rows] : rows \in SeqsUpTo(rowChoices, MaxRows)}

\* existing device entries; optional keys are left out of some of them
EntryChoices ==
  { [name |-> <<"A">>,
     highQuality |-> [rtsp |-> PathChannel1],
     ports |-> [server |-> 9081, rtsp |-> 9554, snapshot |-> 9080]],
    [name |-> <<"B", "-", "C">>,
     highQuality |-> [rtsp |-> PathNoMarker],
     ports |-> [server |-> 8000, rtsp |-> 8001, snapshot |-> 8002]],
    [highQuality |-> [rtsp |-> PathSecondMarker],
     ports |-> [server |-> 9554]],
    [name |-> <<"Z">>,
     highQuality |-> [snapshot |-> "/snap"]] }

OnvifValue(entries) == [kind |-> "list", items |-> entries]

\* documents: the device list alone, the device list among other keys in an
\* order that is not the sorted one, no device list, a null device list
DocsOf(entries) ==
  { [kind |-> "yaml", items |-> << <<"onvif", OnvifValue(entries)>> >>],
    [kind |-> "yaml",
     items |-> << <<"zones", [kind |-> "int", v |-> 7]>>,
                  <<"onvif", OnvifValue(entries)>>,
                  <<"mqtt", [kind |-> "int", v |-> 1]>> >>] }

CfgFiles(entryChoices) ==
  { [kind |-> "absent"], [kind |-> "garbage"], [kind |-> "empty"],
    [kind |-> "yaml", items |-> << <<"mqtt", [kind |-> "int", v |-> 1]>> >>],
    [kind |-> "yaml", items |-> << <<"onvif", [kind |-> "null"]>> >>] }
  \cup UNION {DocsOf(entries) : entries \in SeqsUpTo(entryChoices, MaxEntries)}

\* ------------------------------------------------------------------- state
VARIABLES csvFile, cfgFile, pc, run, csv_cameras, config, missing_cameras,
          exitStatus, io, cfgAtStart, prevWrote

vars == <<csvFile, cfgFile, pc, run, csv_cameras, config, missing_cameras,
          exitStatus, io, cfgAtStart, prevWrote>>

Running == -1
NoConfig == [kind |-> "unset"]

InitWith(csvFiles, cfgFiles) ==
  /\ csvFile \in csvFiles
  /\ cfgFile \in cfgFiles
  /\ pc = "check_csv"
  /\ run = 1
  /\ csv_cameras = <<>>
  /\ config = NoConfig
  /\ missing_cameras = <<>>
  /\ exitStatus = Running
  /\ io = <<>>
  /\ cfgAtStart = cfgFile
  /\ prevWrote = FALSE

Init == InitWith(CsvFiles(DiffRowChoices), CfgFiles(EntryChoices))

\* the parser's rows against the documents that have no device entry
InitParse ==
  InitWith(CsvFiles(ParseRowChoices),
           { [kind |-> "garbage"],
             [kind |-> "yaml", items |-> << <<"onvif", OnvifValue(<<>>)>> >>],
             [kind |-> "yaml", items |-> << <<"mqtt", [kind |-> "int", v |-> 1]>> >>] })

\* sys.exit(status), or falling off the end of main (status 0)
Exit(status) ==
  /\ pc' = "done"
  /\ exitStatus' = status

\* ------------------------------------------------------------------ main()
\* os.path.exists(args.csv)
CheckCsvExists ==
  /\ pc = "check_csv"
  /\ IF csvFile.kind = "absent" THEN Exit(1)
     ELSE pc' = "check_config" /\ UNCHANGED exitStatus
  /\ UNCHANGED <<csvFile, cfgFile, run, csv_cameras, config, missing_cameras,
                 io, cfgAtStart, prevWrote>>

\* os.path.exists(args.config)
CheckConfigExists ==
  /\ pc = "check_config"
  /\ IF cfgFile.kind = "absent" THEN Exit(1)
     ELSE pc' = "parse_csv" /\ UNCHANGED exitStatus
  /\ UNCHANGED <<csvFile, cfgFile, run, csv_cameras, config, missing_cameras,
                 io, cfgAtStart, prevWrote>>

\* csv_cameras = parse_csv_file(args.csv)
ParseCsv ==
  /\ pc = "parse_csv"
  /\ io' = Append(io, "read_csv")
  /\ LET r == parse_csv_file(csvFile.rows)
     IN IF r.exit THEN Exit(1) /\ UNCHANGED csv_cameras
        ELSE /\ csv_cameras' = r.cameras
             /\ pc' = "parse_config"
             /\ UNCHANGED exitStatus
  /\ UNCHANGED <<csvFile, cfgFile, run, config, missing_cameras, cfgAtStart,
                 prevWrote>>

\* config = parse_config_file(args.config)
ParseConfig ==
  /\ pc = "parse_config"
  /\ io' = Append(io, "read_config")
  /\ IF ~LoadOk(cfgFile) THEN Exit(1) /\ UNCHANGED config
     ELSE /\ config' = safe_load(cfgFile)
          /\ pc' = "find"
          /\ UNCHANGED exitStatus
  /\ UNCHANGED <<csvFile, cfgFile, run, csv_cameras, missing_cameras,
                 cfgAtStart, prevWrote>>

\* missing_cameras = find_missing_cameras(csv_cameras, config); a None
\* document makes the membership test raise, which ends the process
FindMissing ==
  /\ pc = "find"
  /\ IF config.kind = "none" THEN Exit(1) /\ UNCHANGED missing_cameras
     ELSE /\ missing_cameras' = find_missing_cameras(csv_cameras, config)
          /\ pc' = "check_missing"
          /\ UNCHANGED exitStatus
  /\ UNCHANGED <<csvFile, cfgFile, run, csv_cameras, config, io, cfgAtStart,
                 prevWrote>>

\* variant: the early return is missing
CheckMissingNoReturn ==
  /\ pc = "check_missing"
  /\ pc' = "add"
  /\ UNCHANGED <<csvFile, cfgFile, run, csv_cameras, config, missing_cameras,
                 exitStatus, io, cfgAtStart, prevWrote>>

\* if not missing_cameras: return
CheckMissing ==
  /\ pc = "check_missing"
  /\ IF missing_cameras = <<>> THEN Exit(0)
     ELSE pc' = "add" /\ UNCHANGED exitStatus
  /\ UNCHANGED <<csvFile, cfgFile, run, csv_cameras, config, missing_cameras,
                 io, cfgAtStart, prevWrote>>

\* updated_config = add_cameras_to_config(missing_cameras, config, ...)
AddCameras ==
  /\ pc = "add"
  /\ IF AddRaises(config) THEN Exit(1) /\ UNCHANGED config
     ELSE /\ config' = add_cameras_to_config(missing_cameras, config,
                                             DefaultInterface)
          /\ pc' = "save_open"
          /\ UNCHANGED exitStatus
  /\ UNCHANGED <<csvFile, cfgFile, run, csv_cameras, missing_cameras, io,
                 cfgAtStart, prevWrote>>

\* save_config_file, open(config_file, 'w'): the file is truncated when the
\* open succeeds and untouched when it raises
SaveOpen ==
  /\ pc = "save_open"
  /\ \/ /\ cfgFile' = [kind |-> "empty"]
        /\ io' = Append(io, "write_config")
        /\ pc' = "save_dump"
        /\ UNCHANGED exitStatus
     \/ /\ Exit(1)
        /\ UNCHANGED <<cfgFile, io>>
  /\ UNCHANGED <<csvFile, run, csv_cameras, config, missing_cameras,
                 cfgAtStart, prevWrote>>

\* save_config_file, yaml.dump(config, f): the whole document is written,
\* or the write raises with nothing or only part of the text on disk
SaveDump ==
  /\ pc = "save_dump"
  /\ \/ /\ cfgFile' = yaml_dump(config)
        /\ Exit(0)
     \/ /\ cfgFile' \in {[kind |-> "empty"], [kind |-> "garbage"]}
        /\ Exit(1)
  /\ UNCHANGED <<csvFile, run, csv_cameras, config, missing_cameras, io,
                 cfgAtStart, prevWrote>>

\* the operator invokes the tool again on the same files
Rerun ==
  /\ pc = "done"
  /\ run < MaxRuns
  /\ run' = run + 1
  /\ pc' = "check_csv"
  /\ exitStatus' = Running
  /\ csv_cameras' = <<>>
  /\ config' = NoConfig
  /\ missing_cameras' = <<>>
  /\ io' = <<>>
  /\ cfgAtStart' = cfgFile
  /\ prevWrote' = (exitStatus = 0 /\ InList("write_config", io))
  /\ UNCHANGED <<csvFile, cfgFile>>

Next ==
  \/ CheckCsvExists
  \/ CheckConfigExists
  \/ ParseCsv
  \/ ParseConfig
  \/ FindMissing
  \/ CheckMissing
  \/ AddCameras
  \/ SaveOpen
  \/ SaveDump
  \/ Rerun

Spec == Init /\ [][Next]_vars

SpecParse == InitParse /\ [][Next]_vars

\* ------------------------------------------------------- shared vocabulary
\* the document as it was read: the file is not touched before the save
Loaded == safe_load(cfgFile)

Roles == {"server", "rtsp", "snapshot"}

DefaultPort(role) ==
  CASE role = "server" -> DefaultServerPort
    [] role = "rtsp" -> DefaultRtspPort
    [] role = "snapshot" -> DefaultSnapshotPort

\* the ports of one role held by the entries of a device list
RolePorts(onvif, role) ==
  {onvif[i].ports[role] : i \in {j \in 1..Len(onvif) :
      "ports" \in DOMAIN onvif[j] /\ role \in DOMAIN onvif[j].ports}}

\* every port of any role held by the entries of a device list
AllPorts(onvif) == UNION {RolePorts(onvif, role) : role \in Roles}

NameSet(onvif) ==
  {onvif[i].name : i \in {j \in 1..Len(onvif) : "name" \in DOMAIN onvif[j]}}

\* the channel an entry's path carries, stated on positions: the leftmost
\* position where the marker is followed by a digit, and from there the
\* digits up to the first character that is not one
MarkerStarts(path) ==
  {i \in 1..Len(path) :
     /\ OccursAt(path, ChannelMarker, i)
     /\ i + Len(ChannelMarker) <= Len(path)
     /\ path[i + Len(ChannelMarker)] \in Digits}

PathChannel(path) ==
  LET first == SetMin(MarkerStarts(path)) + Len(ChannelMarker)
      last  == SetMax({j \in first..Len(path) :
                         \A k \in first..j : path[k] \in Digits})
  IN SubSeq(path, first, last)

ChannelSet(onvif) ==
  {PathChannel(onvif[i].highQuality.rtsp) :
     i \in {j \in 1..Len(onvif) :
              /\ "highQuality" \in DOMAIN onvif[j]
              /\ "rtsp" \in DOMAIN onvif[j].highQuality
              /\ MarkerStarts(onvif[j].highQuality.rtsp) # {}}}

NameKnown(camera) == camera.name \in NameSet(OnvifList(Loaded))
ChannelKnown(camera) == camera.channel \in ChannelSet(OnvifList(Loaded))
IsMissing(camera) == ~NameKnown(camera) /\ ~ChannelKnown(camera)

\* the entries the run appended, in order
Appended ==
  SubSeq(OnvifList(config), Len(OnvifList(Loaded)) + 1, Len(OnvifList(config)))

\* ------------------------------------------------------------------ claims
\* C1: find_missing_cameras returns, in scan order, exactly the scan records
\* whose name is no existing entry's name and whose channel is no channel
\* carried by an existing entry's highQuality.rtsp path; a record that
\* matches by name alone or by channel alone is not returned.
C1_MissingIsNameAndChannelAbsent ==
  pc = "check_missing" =>
    /\ missing_cameras = SelectSeq(csv_cameras, IsMissing)
    /\ \A i \in 1..Len(missing_cameras) :
         ~NameKnown(missing_cameras[i]) /\ ~ChannelKnown(missing_cameras[i])

C1_Witness ==
  /\ pc = "check_missing"
  /\ missing_cameras # <<>>
  /\ Len(missing_cameras) < Len(csv_cameras)
  /\ \E i \in 1..Len(csv_cameras) :
       ChannelKnown(csv_cameras[i]) /\ ~NameKnown(csv_cameras[i])

\* C3 as stated: the i-th appended entry gets seed + 1000*i per role, the
\* seed being the default only for a document without entries and otherwise
\* the largest port of that role among the existing entries.
C3_SeedIsExistingMaximum ==
  pc = "save_open" =>
    \A role \in Roles : \A i \in 1..Len(Appended) :
      /\ OnvifList(Loaded) = <<>> =>
           Appended[i].ports[role] = DefaultPort(role) + 1000 * i
      /\ RolePorts(OnvifList(Loaded), role) # {} =>
           Appended[i].ports[role] =
             SetMax(RolePorts(OnvifList(Loaded), role)) + 1000 * i

\* C3 amended: the seed of a role is the larger of its default (8081, 8554,
\* 8080) and the largest port of that role among the existing entries, and
\* the i-th appended entry gets seed + 1000*i; a document without entries
\* yields (9081, 9554, 9080) and then (10081, 10554, 10080).
C3_SeedIsMaximumWithFloor ==
  pc = "save_open" =>
    /\ Len(Appended) = Len(missing_cameras)
    /\ \A role \in Roles : \A i \in 1..Len(Appended) :
         Appended[i].ports[role] =
           SetMax({DefaultPort(role)} \cup RolePorts(OnvifList(Loaded), role))
             + 1000 * i
    /\ OnvifList(Loaded) = <<>> =>
         /\ Appended[1].ports = [server |-> 9081, rtsp |-> 9554, snapshot |-> 9080]
         /\ Len(Appended) >= 2 =>
              Appended[2].ports =
                [server |-> 10081, rtsp |-> 10554, snapshot |-> 10080]

C3_Witness ==
  /\ pc = "save_open"
  /\ Len(Appended) = 2
  /\ \E role \in Roles :
       /\ RolePorts(OnvifList(Loaded), role) # {}
       /\ SetMax(RolePorts(OnvifList(Loaded), role)) < DefaultPort(role)
  /\ \E role \in Roles :
       /\ RolePorts(OnvifList(Loaded), role) # {}
       /\ SetMax(RolePorts(OnvifList(Loaded), role)) > DefaultPort(role)

\* C4: every port of an appended entry differs from every port of any role
\* of every pre-existing entry, from every port of the other appended
\* entries and from the other two ports of its own triple, and the triples
\* of successive appended entries increase strictly.
C4_PortsNeverConflict ==
  pc = "save_open" =>
    /\ \A i \in 1..Len(Appended) : \A role \in Roles :
         /\ Appended[i].ports[role] \notin AllPorts(OnvifList(Loaded))
         /\ \A other \in Roles \ {role} :
              Appended[i].ports[role] # Appended[i].ports[other]
         /\ \A j \in 1..Len(Appended) : \A other \in Roles :
              j # i => Appended[i].ports[role] # Appended[j].ports[other]
    /\ \A i \in 1..(Len(Appended) - 1) : \A role \in Roles :
         Appended[i].ports[role] < Appended[i + 1].ports[role]

\* C5: add_cameras_to_config keeps every top-level key at its position and
\* every key other than the device list with its value, keeps the existing
\* entries as a prefix of the device list, and appends exactly one entry
\* per missing record, in the order of the missing records.
C5_AppendOnly ==
  pc = "save_open" =>
    /\ Len(config.items) =
         Len(Loaded.items) + (IF HasKey(Loaded.items, "onvif") THEN 0 ELSE 1)
    /\ \A i \in 1..Len(Loaded.items) :
         /\ config.items[i][1] = Loaded.items[i][1]
         /\ Loaded.items[i][1] # "onvif" => config.items[i] = Loaded.items[i]
    /\ Len(OnvifList(config)) = Len(OnvifList(Loaded)) + Len(missing_cameras)
    /\ SubSeq(OnvifList(config), 1, Len(OnvifList(Loaded))) = OnvifList(Loaded)
    /\ \A i \in 1..Len(missing_cameras) :
         /\ Appended[i].name = missing_cameras[i].name
         /\ Appended[i].target.hostname = missing_cameras[i].hostname
         /\ Appended[i].highQuality.rtsp = missing_cameras[i].rtsp_path

C5_Witness ==
  /\ pc = "save_open"
  /\ Len(Loaded.items) = 3
  /\ Len(OnvifList(Loaded)) = 2
  /\ Len(missing_cameras) = 2
  /\ missing_cameras[1].name # missing_cameras[2].name

\* C6: in every run the CSV is read before the configuration, the
\* configuration is written at most once and only after both reads
\* succeeded with a non-empty missing set, and a run whose missing set is
\* empty ends with status 0 without writing, the file left as it was.
C6_RunOrdering ==
  /\ \E n \in 0..3 : io = SubSeq(<<"read_csv", "read_config", "write_config">>, 1, n)
  /\ InList("write_config", io) =>
       /\ config.kind = "map"
       /\ missing_cameras # <<>>
  /\ (pc = "done" /\ config.kind = "map" /\ missing_cameras = <<>>) =>
       /\ exitStatus = 0
       /\ ~InList("write_config", io)
       /\ cfgFile = cfgAtStart

C6_Witness ==
  /\ pc = "done"
  /\ exitStatus = 0
  /\ csv_cameras # <<>>
  /\ missing_cameras = <<>>
  /\ io = <<"read_csv", "read_config">>
  /\ cfgFile = cfgAtStart

\* C7: a run that ends on a run-level error (missing CSV, missing or
\* unparseable configuration, a write that fails at any point) ends with a
\* non-zero status and leaves the configuration file as it was before the
\* run.
C7_FatalErrorCommitsNothing ==
  (pc = "done" /\ exitStatus # 0) => cfgFile = cfgAtStart

\* C9: when the names of the existing entries are pairwise distinct, the
\* names of the device list after find_missing_cameras and
\* add_cameras_to_config are pairwise distinct.
NamesDistinct(onvif) ==
  \A i, j \in 1..Len(onvif) :
    (i # j /\ "name" \in DOMAIN onvif[i] /\ "name" \in DOMAIN onvif[j])
      => onvif[i].name # onvif[j].name

C9_NamesStayDistinct ==
  (pc = "save_open" /\ NamesDistinct(OnvifList(Loaded)))
    => NamesDistinct(OnvifList(config))

\* C10: a run that follows a run which wrote the configuration, with the
\* same scan input, finds no missing record, appends nothing and does not
\* write the file.
C10_SecondRunIsNoOp ==
  prevWrote =>
    /\ missing_cameras = <<>>
    /\ pc \notin {"add", "save_open", "save_dump"}
    /\ ~InList("write_config", io)
    /\ cfgFile = cfgAtStart
    /\ pc = "done" => exitStatus = 0

C10_Witness ==
  /\ prevWrote
  /\ pc = "done"
  /\ exitStatus = 0
  /\ Len(csv_cameras) = 2
  /\ \E i \in 1..2 : MarkerStarts(csv_cameras[i].rtsp_path) = {}

\* C2: a working row with a malformed resolution or a stream address that
\* cannot be decomposed is left out, the remaining rows are processed, every
\* other well-formed working row is returned and the parser never ends the
\* process.
WellFormedCameras(rows) ==
  LET good == SelectSeq(rows, LAMBDA row : ParseRow(row).kind = "camera")
  IN [i \in 1..Len(good) |-> ParseRow(good[i]).camera]

C2_RowErrorsAreRecoverable ==
  io # <<>> =>
    /\ ~(pc = "done" /\ io = <<"read_csv">>)
    /\ csv_cameras = WellFormedCameras(csvFile.rows)

\* C8: every record parse_csv_file returns has a non-empty name, a
\* non-empty hostname, a non-empty path and a positive width and height.
C8_ParsedRecordsAreValid ==
  \A i \in 1..Len(csv_cameras) :
    /\ csv_cameras[i].name # <<>>
    /\ csv_cameras[i].hostname # <<>>
    /\ csv_cameras[i].rtsp_path # <<>>
    /\ csv_cameras[i].width > 0
    /\ csv_cameras[i].height > 0

====
